---- MODULE Spec2Model ----
(***************************************************************************)
(* timed-locks: smart pointers to tokio::sync::Mutex and                   *)
(* tokio::sync::RwLock whose acquisition calls race the inner lock's       *)
(* acquisition against tokio::time::timeout(self.timeout, ..).             *)
(*                                                                         *)
(* One wrapper (a Mutex or an RwLock, chosen with its constructor in       *)
(* Init) is shared by NTasks tasks.  The inner lock is tokio's batch       *)
(* semaphore: a permit counter and a FIFO queue of waiters; a Mutex has 1  *)
(* permit, an RwLock MAX_READS permits of which write() takes all.  Time   *)
(* is counted in ticks of 1/TicksPerSec second.  Each pending call carries *)
(* its own timer (ticks left until its Sleep fires) and the time it has    *)
(* waited.  Time advances only while no woken task is waiting to be        *)
(* polled, which is how the paused test clock of tests.rs advances.        *)
(* A call made by a task whose cooperative budget is used up is not polled *)
(* through: it yields and is polled again with a fresh budget.  Deref      *)
(* gives the inner lock itself, whose own lock / read / write (and their   *)
(* blocking forms) wait with no timer.                                     *)
(***************************************************************************)
EXTENDS Integers, Sequences, FiniteSets

\* ---------------------------------------------------------------- bounds

NTasks == 2

MaxHeld == 2

TicksPerSec == 2

StepSecs == 30

MaxBlockedWaits == 1

\* ------------------------------------------------------------- constants

DEFAULT_TIMEOUT_SECS == 30

CUSTOM_TIMEOUT_SECS == 60

Tasks == 1..NTasks

NoTimer == 0 - 1

Min(a, b) == IF a <= b THEN a ELSE b

\* Duration::from_secs and Duration::as_secs, durations being ticks.
from_secs(s) == s * TicksPerSec

\* Mutant: the seconds are rounded to the nearest instead of truncated.
as_secs_rounded(d) == (d + (TicksPerSec \div 2)) \div TicksPerSec

as_secs(d) == d \div TicksPerSec

DEFAULT_TIMEOUT_DURATION == from_secs(DEFAULT_TIMEOUT_SECS)

\* The durations new_with_timeout is called with: zero, half a second,
\* one and a half seconds, and the 60 seconds of the tests.
TimeoutChoices ==
    {0, TicksPerSec \div 2, TicksPerSec + (TicksPerSec \div 2),
     from_secs(CUSTOM_TIMEOUT_SECS)}

\* tokio's RwLock is built with MAX_READS permits (u32::MAX >> 3), a number
\* the readers never exhaust; here one more than the guards the tasks can hold.
MAX_READS == NTasks * MaxHeld + 1

Kinds == {"Mutex", "RwLock"}

MutexOps == {"lock", "lock_err"}

RwLockOps == {"read", "read_err", "write", "write_err"}

OpsOf(k) == IF k = "Mutex" THEN MutexOps ELSE RwLockOps

\* The non-timed operations of the inner lock the claims are about, reached
\* through Deref.
TryOps == {"try_lock", "try_read", "try_write"}

TryOpsOf(k) == IF k = "Mutex" THEN {"try_lock"} ELSE {"try_read", "try_write"}

\* The inner lock's own waiting operations, reached through Deref: lock, read
\* and write of tokio's Mutex and RwLock, and blocking_lock, blocking_read and
\* blocking_write, which wait in the same queue.
InnerOps == {"inner_lock", "inner_read", "inner_write"}

InnerOpsOf(k) ==
    IF k = "Mutex" THEN {"inner_lock"} ELSE {"inner_read", "inner_write"}

GuardKinds == {"MutexGuard", "RwLockReadGuard", "RwLockWriteGuard"}

VARIABLES
    kind,       \* which wrapper was constructed: "Mutex" or "RwLock"
    ctor,       \* the constructor that built it: "new" or "new_with_timeout"
    timeout,    \* the wrapper's field timeout, in ticks
    inner,      \* the inner tokio lock: [permits, queue, need]
    pc,         \* per task: "idle", "yielded" (call made, not yet polled through),
                \* "waiting" (inside timeout(..).await), "blocked" (inside an
                \* acquisition of the inner lock itself) or "panicked"
    op,         \* per task: the method of its pending call
    held,       \* per task: the live guards it owns, by guard kind
    timer,      \* per task: ticks left until its call's Sleep fires, or NoTimer
    elapsed,    \* per task: ticks since its pending call started (timed or not)
    result      \* the outcome of the call the last step completed, if it completed
                \* one: its task, its method, what it returned or panicked with,
                \* and the ticks since the call started

vars == <<kind, ctor, timeout, inner, pc, op, held, timer, elapsed, result>>

\* ------------------------------------------------------ the pending calls

Waiting == {t \in Tasks : pc[t] = "waiting"}

\* The tasks whose call found the cooperative budget used up.
Yielded == {t \in Tasks : pc[t] = "yielded"}

\* The tasks inside an acquisition of the inner lock that has no timer.
Blocked == {t \in Tasks : pc[t] = "blocked"}

\* The inner acquisition of a blocked task has all its permits.
Unblocked(t) == pc[t] = "blocked" /\ inner.need[t] = 0

\* The inner acquisition of t's call has all its permits: its next poll is ready.
Granted(t) == pc[t] = "waiting" /\ inner.need[t] = 0

\* The Sleep of t's call has elapsed.
Fired(t) == pc[t] = "waiting" /\ timer[t] = 0

\* The tasks that have been woken and not yet polled.
Woken ==
    {t \in Tasks : Granted(t) \/ Fired(t) \/ Unblocked(t) \/ t \in Yielded}

Armed == {t \in Waiting : timer[t] # NoTimer}

NextFire == CHOOSE m \in {timer[t] : t \in Armed} :
                \A t \in Armed : m <= timer[t]

\* ------------------------------------------------------- the inner lock
\* tokio::sync::Mutex::new is a semaphore of 1 permit, tokio::sync::RwLock::new
\* one of MAX_READS permits; need[t] is what the waiter node of task t still
\* lacks, queue the waiters in arrival order.

TotalPermits(k) == IF k = "Mutex" THEN 1 ELSE MAX_READS

NewInner(k) ==
    [permits |-> TotalPermits(k), queue |-> <<>>, need |-> [t \in Tasks |-> 0]]

\* Mutant: write() delegates to inner.read(), acquiring a single permit.
NumPermitsOne(o) == 1

\* inner.lock() and inner.read() acquire 1 permit, inner.write() all of them.
NumPermits(o) ==
    IF o \in {"write", "write_err", "try_write", "inner_write"}
    THEN MAX_READS ELSE 1

GuardOf(o) ==
    CASE o \in {"lock", "lock_err", "try_lock", "inner_lock"} -> "MutexGuard"
      [] o \in {"read", "read_err", "try_read", "inner_read"} -> "RwLockReadGuard"
      [] o \in {"write", "write_err", "try_write", "inner_write"} ->
           "RwLockWriteGuard"

\* Mutant: dropping a write guard hands back a single permit.
GuardPermitsOne(g) == 1

\* The permits a dropped guard hands back.
GuardPermits(g) == IF g = "RwLockWriteGuard" THEN MAX_READS ELSE 1

\* Dropping a guard (and cancelling a wait) hands permits back: first to the
\* waiters in queue order, a satisfied waiter leaving the queue, and only with
\* the queue empty to the counter.
RECURSIVE AddPermits(_, _)
AddPermits(s, rem) ==
    IF rem = 0 THEN s
    ELSE IF s.queue = <<>> THEN [s EXCEPT !.permits = @ + rem]
    ELSE LET w == Head(s.queue)
             give == Min(rem, s.need[w])
         IN  IF give = s.need[w]
             THEN AddPermits([s EXCEPT !.need[w] = 0, !.queue = Tail(@)],
                             rem - give)
             ELSE [s EXCEPT !.need[w] = @ - give]

\* Mutant: off by one, the last permit is never handed out at once.
CanAcquireStrict(s, n) == s.permits > n

\* The first poll of the inner acquisition: with enough permits in the counter
\* it takes them and is ready; otherwise it takes what is there and queues.
CanAcquire(s, n) == s.permits >= n

PollAcquire(s, t, n) ==
    IF CanAcquire(s, n)
    THEN [s EXCEPT !.permits = @ - n]
    ELSE [s EXCEPT !.permits = 0,
                   !.need[t] = n - s.permits,
                   !.queue = Append(@, t)]

\* try_lock, try_read and try_write look at the counter only: with enough
\* permits they take them, otherwise they fail and leave the lock as it is.
TryAcquire(s, n) == IF CanAcquire(s, n) THEN [s EXCEPT !.permits = @ - n] ELSE s

Without(q, t) == SelectSeq(q, LAMBDA x : x # t)

\* Mutant: the node is unlinked but the permits it had collected are kept.
DropAcquireKeepsPermits(s, t, n) ==
    [s EXCEPT !.queue = Without(@, t), !.need[t] = 0]

\* Dropping a pending acquisition (the timeout dropped its future): the node
\* leaves the queue and the permits it had collected are handed on.
DropAcquire(s, t, n) ==
    LET got == n - s.need[t]
        s1 == [s EXCEPT !.queue = Without(@, t), !.need[t] = 0]
    IN  AddPermits(s1, got)

\* ------------------------------------------------------------ the guards

NoGuards == [g \in GuardKinds |-> 0]

Count(h) == h["MutexGuard"] + h["RwLockReadGuard"] + h["RwLockWriteGuard"]

HeldPermits(h) ==
    h["MutexGuard"] + h["RwLockReadGuard"] + MAX_READS * h["RwLockWriteGuard"]

\* Mutant: the guards of a panicked task are forgotten, not dropped.
ReleaseNone(s, h) == s

\* A panicking task unwinds: every guard it owns is dropped.
ReleaseAll(s, h) == AddPermits(s, HeldPermits(h))

\* ---------------------------------------------------------- the outcomes

\* The last step completed no call.
NoResult ==
    [task |-> 0, kind |-> "none", op |-> "none", text |-> "", secs |-> 0, at |-> 0]

\* #[error(..)] of enum Error: the Display text of each timeout variant, {0}
\* standing for the seconds (the source's backquotes are written ' here).
Display(variant) ==
    CASE variant = "LockTimeout" ->
           "Timed out while waiting for 'lock' after {0} seconds."
      [] variant = "ReadLockTimeout" ->
           "Timed out while waiting for 'read' lock after {0} seconds."
      [] variant = "WriteLockTimeout" ->
           "Timed out while waiting for 'write' lock after {0} seconds."

\* The panic!(..) format string of each abort-path method, as written.
PanicText(o) ==
    CASE o = "lock" ->
           "Timed out while waiting for 'read' lock after {0} seconds."
      [] o = "read" ->
           "Timed out while waiting for 'read' lock after {0} seconds."
      [] o = "write" ->
           "Timed out while waiting for 'write' lock after {0} seconds."

\* Mutant: every error-path method reports the read variant.
ErrorVariantCopied(o) == "ReadLockTimeout"

\* The variant each error-path method maps Elapsed to.
ErrorVariant(o) ==
    CASE o = "lock_err" -> "LockTimeout"
      [] o = "read_err" -> "ReadLockTimeout"
      [] o = "write_err" -> "WriteLockTimeout"

\* Which methods match Err(_) => panic!(..), the others map_err(..)?.
Panics(o) == o \in {"lock", "read", "write"}

\* Mutant: every method maps Elapsed to an error value, none panics.
OnElapsedNeverPanics(t, o, d, at) ==
    [task |-> t, kind |-> "err", op |-> o,
     text |-> IF o \in {"lock", "lock_err"} THEN "LockTimeout"
              ELSE IF o \in {"read", "read_err"} THEN "ReadLockTimeout"
              ELSE "WriteLockTimeout",
     secs |-> as_secs(d), at |-> at]

\* Mutant: a flag of the wrapper, not the method, picks panic or error.
OnElapsedByFlag(t, o, d, at) ==
    [task |-> t, kind |-> IF ctor = "new" THEN "panic" ELSE "err", op |-> o,
     text |-> "Timed out", secs |-> as_secs(d), at |-> at]

\* What the method o of a wrapper with timeout d does with Err(Elapsed).
OnElapsed(t, o, d, at) ==
    IF Panics(o)
    THEN [task |-> t, kind |-> "panic", op |-> o, text |-> PanicText(o),
          secs |-> as_secs(d), at |-> at]
    ELSE [task |-> t, kind |-> "err", op |-> o, text |-> ErrorVariant(o),
          secs |-> as_secs(d), at |-> at]

\* What it does with Ok(guard).
OnGuard(t, o, at) ==
    [task |-> t, kind |-> "guard", op |-> o, text |-> GuardOf(o), secs |-> 0,
     at |-> at]

\* Mutant: the failure of a try operation is reported as the timeout of the
\* timed operation.
TryErrorVariantAsTimeout(o) ==
    CASE o = "try_lock" -> "LockTimeout"
      [] o = "try_read" -> "ReadLockTimeout"
      [] o = "try_write" -> "WriteLockTimeout"

\* #[from] tokio::sync::TryLockError: the variant a failed try operation
\* converts to.
TryErrorVariant(o) == "TokioSyncTryLock"

\* Err(TryLockError) of a try operation.
OnTryError(t, o) ==
    [task |-> t, kind |-> "try_err", op |-> o, text |-> TryErrorVariant(o),
     secs |-> 0, at |-> 0]

\* Mutant: the inner acquisition is awaited with no timer.
DeadlineUnarmed(d) == NoTimer

\* Mutant: the timer is armed with the whole seconds of the timeout.
DeadlineWholeSecs(d) == from_secs(as_secs(d))

\* Mutant: one timer per wrapper, a new call joins the one that is running.
DeadlineShared(d) == IF Armed = {} THEN d ELSE NextFire

\* timeout(self.timeout, ..): the Sleep is armed for now + self.timeout;
\* the timer counts the ticks left from the call.
Deadline(d) == d

\* ---------------------------------------------------------- construction

Construct(k, c, d) ==
    /\ kind = k
    /\ ctor = c
    /\ timeout = d
    /\ inner = NewInner(k)
    /\ pc = [t \in Tasks |-> "idle"]
    /\ op = [t \in Tasks |-> "none"]
    /\ held = [t \in Tasks |-> NoGuards]
    /\ timer = [t \in Tasks |-> NoTimer]
    /\ elapsed = [t \in Tasks |-> 0]
    /\ result = NoResult

new(k) == Construct(k, "new", DEFAULT_TIMEOUT_DURATION)

new_with_timeout(k, d) == Construct(k, "new_with_timeout", d)

\* Default::default and From::from call Self::new.
default(k) == new(k)

from(k) == new(k)

Init ==
    \E k \in Kinds :
        \/ new(k)
        \/ default(k)
        \/ from(k)
        \/ \E d \in TimeoutChoices : new_with_timeout(k, d)

\* ------------------------------------------------------------ the calls

\* Mutant: a method writes the default timeout back into the field.
SelfResetsTimeout == UNCHANGED <<kind, ctor>> /\ timeout' = DEFAULT_TIMEOUT_DURATION

\* Every method takes &self and the fields are private: a call leaves the
\* wrapper as it was built.
SelfUnchanged == UNCHANGED <<kind, ctor, timeout>>

\* The first poll of timeout(self.timeout, inner acquisition) that is polled
\* through: the inner future is polled first and a ready guard is returned at
\* once; with the acquisition pending the Sleep is polled, and a timeout of
\* zero has elapsed already: the pending acquisition is dropped and the call
\* ends in Err(Elapsed) in this very poll; otherwise the task is suspended
\* with its own timer armed.
FirstPoll(t, o) ==
    LET n == NumPermits(o)
        s1 == PollAcquire(inner, t, n)
    IN  /\ IF CanAcquire(inner, n)
           THEN /\ inner' = s1
                /\ held' = [held EXCEPT ![t][GuardOf(o)] = @ + 1]
                /\ result' = OnGuard(t, o, 0)
                /\ pc' = [pc EXCEPT ![t] = "idle"]
                /\ op' = [op EXCEPT ![t] = "none"]
                /\ timer' = [timer EXCEPT ![t] = NoTimer]
           ELSE IF Deadline(timeout) = 0
           THEN LET s2 == DropAcquire(s1, t, n)
                    r == OnElapsed(t, o, timeout, 0)
                IN  /\ result' = r
                    /\ IF r.kind = "panic"
                       THEN /\ pc' = [pc EXCEPT ![t] = "panicked"]
                            /\ inner' = ReleaseAll(s2, held[t])
                            /\ held' = [held EXCEPT ![t] = NoGuards]
                       ELSE /\ pc' = [pc EXCEPT ![t] = "idle"]
                            /\ inner' = s2
                            /\ UNCHANGED held
                    /\ op' = [op EXCEPT ![t] = "none"]
                    /\ timer' = [timer EXCEPT ![t] = NoTimer]
           ELSE /\ inner' = s1
                /\ pc' = [pc EXCEPT ![t] = "waiting"]
                /\ op' = [op EXCEPT ![t] = o]
                /\ timer' = [timer EXCEPT ![t] = Deadline(timeout)]
                /\ result' = NoResult
                /\ UNCHANGED held
        /\ elapsed' = [elapsed EXCEPT ![t] = 0]
        /\ SelfUnchanged

\* The first poll of a call made with the task's cooperative budget used up
\* (the budget counts every await the task completed since it was last
\* suspended, on this lock or elsewhere): neither the inner acquisition nor
\* the Sleep is polled through, the task yields and is polled again at once.
Yield(t, o) ==
    /\ pc' = [pc EXCEPT ![t] = "yielded"]
    /\ op' = [op EXCEPT ![t] = o]
    /\ result' = NoResult
    /\ UNCHANGED <<inner, held, timer, elapsed>>
    /\ SelfUnchanged

\* A call of one of the six timed methods, with or without budget left.
Call(t, o) ==
    /\ pc[t] = "idle"
    /\ o \in OpsOf(kind)
    /\ Count(held[t]) < MaxHeld
    /\ \A b \in Blocked : elapsed[b] + timeout <= MaxBlockedWaits * timeout
    /\ FirstPoll(t, o) \/ Yield(t, o)

Mutex_lock(t) == kind = "Mutex" /\ Call(t, "lock")

Mutex_lock_err(t) == kind = "Mutex" /\ Call(t, "lock_err")

RwLock_read(t) == kind = "RwLock" /\ Call(t, "read")

RwLock_read_err(t) == kind = "RwLock" /\ Call(t, "read_err")

RwLock_write(t) == kind = "RwLock" /\ Call(t, "write")

RwLock_write_err(t) == kind = "RwLock" /\ Call(t, "write_err")

\* A later poll finds the inner acquisition ready: Ok(guard), whether or not
\* the timer has fired too (the inner future is polled before the Sleep).
AcquireWins(t) ==
    /\ Granted(t)
    /\ pc' = [pc EXCEPT ![t] = "idle"]
    /\ held' = [held EXCEPT ![t][GuardOf(op[t])] = @ + 1]
    /\ result' = OnGuard(t, op[t], elapsed[t])
    /\ op' = [op EXCEPT ![t] = "none"]
    /\ timer' = [timer EXCEPT ![t] = NoTimer]
    /\ elapsed' = [elapsed EXCEPT ![t] = 0]
    /\ UNCHANGED inner
    /\ SelfUnchanged

\* A try operation of the inner lock, called through the wrapper's Deref: it
\* returns in the step of the call, with the guard or with the try-lock error.
Try(t, o) ==
    /\ pc[t] = "idle"
    /\ o \in TryOpsOf(kind)
    /\ inner' = TryAcquire(inner, NumPermits(o))
    /\ IF CanAcquire(inner, NumPermits(o))
       THEN /\ Count(held[t]) < MaxHeld
            /\ held' = [held EXCEPT ![t][GuardOf(o)] = @ + 1]
            /\ result' = OnGuard(t, o, 0)
       ELSE /\ result' = OnTryError(t, o)
            /\ UNCHANGED held
    /\ UNCHANGED <<pc, op, timer, elapsed>>
    /\ SelfUnchanged

Mutex_try_lock(t) == kind = "Mutex" /\ Try(t, "try_lock")

RwLock_try_read(t) == kind = "RwLock" /\ Try(t, "try_read")

RwLock_try_write(t) == kind = "RwLock" /\ Try(t, "try_write")

\* The first poll of an acquisition of the inner lock itself that is polled
\* through: the guard at once or a wait in the queue, with no timer.
InnerPoll(t, o) ==
    /\ inner' = PollAcquire(inner, t, NumPermits(o))
    /\ IF CanAcquire(inner, NumPermits(o))
       THEN /\ held' = [held EXCEPT ![t][GuardOf(o)] = @ + 1]
            /\ result' = OnGuard(t, o, 0)
            /\ pc' = [pc EXCEPT ![t] = "idle"]
            /\ op' = [op EXCEPT ![t] = "none"]
       ELSE /\ pc' = [pc EXCEPT ![t] = "blocked"]
            /\ op' = [op EXCEPT ![t] = o]
            /\ result' = NoResult
            /\ UNCHANGED held
    /\ elapsed' = [elapsed EXCEPT ![t] = 0]
    /\ UNCHANGED timer
    /\ SelfUnchanged

\* A waiting operation of the inner lock itself, called through the
\* wrapper's Deref, with or without budget left.
Inner(t, o) ==
    /\ pc[t] = "idle"
    /\ o \in InnerOpsOf(kind)
    /\ Count(held[t]) < MaxHeld
    /\ InnerPoll(t, o) \/ Yield(t, o)

\* The task that yielded is polled again, with a fresh budget.
Resume(t) ==
    /\ pc[t] = "yielded"
    /\ IF op[t] \in InnerOps THEN InnerPoll(t, op[t]) ELSE FirstPoll(t, op[t])

Inner_lock(t) == kind = "Mutex" /\ Inner(t, "inner_lock")

Inner_read(t) == kind = "RwLock" /\ Inner(t, "inner_read")

Inner_write(t) == kind = "RwLock" /\ Inner(t, "inner_write")

\* The blocked task has been handed its permits and returns the guard.
InnerAcquired(t) ==
    /\ Unblocked(t)
    /\ pc' = [pc EXCEPT ![t] = "idle"]
    /\ held' = [held EXCEPT ![t][GuardOf(op[t])] = @ + 1]
    /\ result' = OnGuard(t, op[t], elapsed[t])
    /\ op' = [op EXCEPT ![t] = "none"]
    /\ elapsed' = [elapsed EXCEPT ![t] = 0]
    /\ UNCHANGED <<inner, timer>>
    /\ SelfUnchanged

\* The poll of timeout(..) that returns Err(Elapsed): the inner future was
\* polled first and is pending, the Sleep polled after it has elapsed.
PollsElapsed(t) == Fired(t) /\ ~Granted(t)

\* A later poll finds the inner acquisition pending and the Sleep elapsed:
\* Err(Elapsed).  The pending acquisition is dropped; an abort-path method
\* panics, which unwinds the task and drops its guards, an error-path method
\* returns the error.
TimerWins(t) ==
    /\ PollsElapsed(t)
    /\ LET s1 == DropAcquire(inner, t, NumPermits(op[t]))
           r == OnElapsed(t, op[t], timeout, elapsed[t])
       IN  /\ result' = r
           /\ IF r.kind = "panic"
              THEN /\ pc' = [pc EXCEPT ![t] = "panicked"]
                   /\ inner' = ReleaseAll(s1, held[t])
                   /\ held' = [held EXCEPT ![t] = NoGuards]
              ELSE /\ pc' = [pc EXCEPT ![t] = "idle"]
                   /\ inner' = s1
                   /\ UNCHANGED held
    /\ op' = [op EXCEPT ![t] = "none"]
    /\ timer' = [timer EXCEPT ![t] = NoTimer]
    /\ elapsed' = [elapsed EXCEPT ![t] = 0]
    /\ SelfUnchanged

\* A running task drops one of its guards.
DropGuard(t, g) ==
    /\ pc[t] = "idle"
    /\ held[t][g] > 0
    /\ held' = [held EXCEPT ![t][g] = @ - 1]
    /\ inner' = AddPermits(inner, GuardPermits(g))
    /\ result' = NoResult
    /\ UNCHANGED <<kind, ctor, timeout, pc, op, timer, elapsed>>

\* RwLockWriteGuard::downgrade: the write guard becomes a read guard and all
\* permits but one are handed back.
Downgrade(t) ==
    /\ pc[t] = "idle"
    /\ held[t]["RwLockWriteGuard"] > 0
    /\ held' = [held EXCEPT ![t]["RwLockWriteGuard"] = @ - 1,
                            ![t]["RwLockReadGuard"] = @ + 1]
    /\ inner' = AddPermits(inner, MAX_READS - 1)
    /\ result' = NoResult
    /\ UNCHANGED <<kind, ctor, timeout, pc, op, timer, elapsed>>

\* ---------------------------------------------------------------- time

\* Time passes while every task inside a call is suspended (none has been
\* woken and not yet polled), and not beyond the next timer to fire.
Advance(d) ==
    /\ Woken = {}
    /\ d >= 1
    /\ \A t \in Armed : d <= timer[t]
    /\ timer' = [t \in Tasks |-> IF t \in Armed THEN timer[t] - d ELSE timer[t]]
    /\ elapsed' = [t \in Tasks |->
                       IF t \in Waiting \cup Blocked THEN elapsed[t] + d
                       ELSE elapsed[t]]
    /\ result' = NoResult
    /\ UNCHANGED <<kind, ctor, timeout, inner, pc, op, held>>

\* By StepSecs seconds, whether or not a timed call is pending; an untimed
\* acquisition is followed through MaxBlockedWaits such steps.
AdvanceStep ==
    /\ \A b \in Blocked :
          elapsed[b] + from_secs(StepSecs) <= MaxBlockedWaits * from_secs(StepSecs)
    /\ Advance(from_secs(StepSecs))

\* Up to the next timer.
AdvanceToTimer == Armed # {} /\ Advance(NextFire)

Next ==
    \/ \E t \in Tasks : Mutex_lock(t)
    \/ \E t \in Tasks : Mutex_lock_err(t)
    \/ \E t \in Tasks : RwLock_read(t)
    \/ \E t \in Tasks : RwLock_read_err(t)
    \/ \E t \in Tasks : RwLock_write(t)
    \/ \E t \in Tasks : RwLock_write_err(t)
    \/ \E t \in Tasks : Mutex_try_lock(t)
    \/ \E t \in Tasks : RwLock_try_read(t)
    \/ \E t \in Tasks : RwLock_try_write(t)
    \/ \E t \in Tasks : Inner_lock(t)
    \/ \E t \in Tasks : Inner_read(t)
    \/ \E t \in Tasks : Inner_write(t)
    \/ \E t \in Tasks : Resume(t)
    \/ \E t \in Tasks : InnerAcquired(t)
    \/ \E t \in Tasks : Downgrade(t)
    \/ \E t \in Tasks : AcquireWins(t)
    \/ \E t \in Tasks : TimerWins(t)
    \/ \E t \in Tasks, g \in GuardKinds : DropGuard(t, g)
    \/ AdvanceStep
    \/ AdvanceToTimer

Spec == Init /\ [][Next]_vars

TypeOK ==
    /\ kind \in Kinds
    /\ timeout \in Nat
    /\ inner.permits \in 0..TotalPermits(kind)
    /\ \A t \in Tasks :
          pc[t] \in {"idle", "yielded", "waiting", "blocked", "panicked"}
    /\ \A t \in Tasks : timer[t] \in Nat \cup {NoTimer}

\* ============================================================ the claims

AbortOps == {"lock", "read", "write"}

ErrorOps == {"lock_err", "read_err", "write_err"}

TimedOut == result.kind \in {"panic", "err"}

SomeoneHolds == \E t \in Tasks : Count(held[t]) > 0

\* The tasks with an acquisition of the inner lock in flight.
Pending == Waiting \cup Blocked

\* C1: bounded wait, on the paused clock of the tests (time passes only while
\* no woken task is unpolled, and a timer that is due fires before time moves
\* on).  A pending call of one of the six methods has never
\* waited longer than the wrapper's timeout; one that has waited the whole
\* timeout is woken (its resolution is the next thing its task does) and time
\* does not pass before it resolves; a call that has yielded has waited no
\* time and is polled before time passes; a call that is not woken is one
\* time can pass for, whoever holds or waits for the lock without a timer;
\* and every reported timeout came no later than the timeout after the call
\* started.
C1_BoundedWait ==
    /\ \A t \in Waiting :
          /\ elapsed[t] <= timeout
          /\ elapsed[t] = timeout => t \in Woken
          /\ t \in Woken => ~ENABLED AdvanceStep /\ ~ENABLED AdvanceToTimer
          /\ t \in Woken => ENABLED (AcquireWins(t) \/ TimerWins(t))
          /\ Woken = {} => ENABLED AdvanceToTimer
    /\ \A t \in Yielded :
          /\ elapsed[t] = 0
          /\ ENABLED Resume(t)
          /\ ~ENABLED AdvanceStep /\ ~ENABLED AdvanceToTimer
    /\ TimedOut => result.at <= timeout

\* A call timed out after the whole 60 seconds with the holder still holding.
C1_Witness ==
    /\ TimedOut
    /\ timeout = from_secs(CUSTOM_TIMEOUT_SECS)
    /\ result.at = timeout
    /\ \E t \in Tasks : t # result.task /\ Count(held[t]) > 0

\* C2: abort path.  A pending lock(), read() or write() that has waited the
\* whole timeout without being granted the lock has its timer fired, and no
\* completed abort-path call timed out in any other way than by panicking its
\* task exactly at the timeout, the task being dead and holding no guard.
C2_AbortPath ==
    /\ \A t \in Waiting :
          (op[t] \in AbortOps /\ elapsed[t] = timeout /\ ~Granted(t))
              => Fired(t) /\ ENABLED TimerWins(t) /\ ~ENABLED AcquireWins(t)
    /\ (result.op \in AbortOps /\ result.kind # "guard")
          => /\ result.kind = "panic"
             /\ result.at = timeout
             /\ pc[result.task] = "panicked"
             /\ held[result.task] = NoGuards

\* The deadlock of the tests: the task that holds the write guard of a default
\* RwLock called read() and was panicked after 30 seconds.
C2_Witness ==
    /\ kind = "RwLock"
    /\ ctor = "new"
    /\ result.kind = "panic"
    /\ result.op = "read"
    /\ result.at = from_secs(DEFAULT_TIMEOUT_SECS)
    /\ pc[result.task] = "panicked"

\* C3: error path.  A completed lock_err, read_err or write_err that did not
\* return a guard returned the error variant of its own operation, carrying
\* the whole seconds of the wrapper's timeout (30 for a wrapper built by new),
\* and its task was not panicked.
C3_ErrorPath ==
    (result.op \in ErrorOps /\ result.kind # "guard")
        => /\ result.kind = "err"
           /\ result.op = "lock_err" => result.text = "LockTimeout"
           /\ result.op = "read_err" => result.text = "ReadLockTimeout"
           /\ result.op = "write_err" => result.text = "WriteLockTimeout"
           /\ result.secs * TicksPerSec <= timeout
           /\ timeout < (result.secs + 1) * TicksPerSec
           /\ ctor = "new" => result.secs = DEFAULT_TIMEOUT_SECS
           /\ pc[result.task] # "panicked"

\* write_err on a default RwLock returned WriteLockTimeout(30) while a read
\* guard was held, and the caller runs on.
C3_Witness ==
    /\ ctor = "new"
    /\ result.kind = "err"
    /\ result.op = "write_err"
    /\ result.text = "WriteLockTimeout"
    /\ result.secs = DEFAULT_TIMEOUT_SECS
    /\ pc[result.task] = "idle"
    /\ SomeoneHolds

RECURSIVE SumOver(_, _)
SumOver(f, S) ==
    IF S = {} THEN 0
    ELSE LET x == CHOOSE y \in S : TRUE
         IN  f[x] + SumOver(f, S \ {x})

\* The live guards of a kind, over all tasks.
Live(g) == SumOver([t \in Tasks |-> held[t][g]], Tasks)

\* The permits pending calls have collected so far.
Collected ==
    SumOver([t \in Tasks |-> IF t \in Pending
                             THEN NumPermits(op[t]) - inner.need[t] ELSE 0],
            Tasks)

\* C4: mutual exclusion.  A Mutex has at most one live guard; an RwLock has
\* either no write guard (and any number of read guards) or exactly one write
\* guard and no read guard.  Every permit is in the counter, behind a live
\* guard or with a pending call, so a call that timed out holds nothing.
C4_MutualExclusion ==
    /\ kind = "Mutex" =>
          /\ Live("MutexGuard") <= 1
          /\ Live("RwLockReadGuard") = 0 /\ Live("RwLockWriteGuard") = 0
    /\ kind = "RwLock" =>
          /\ Live("MutexGuard") = 0
          /\ \/ Live("RwLockWriteGuard") = 0
             \/ Live("RwLockWriteGuard") = 1 /\ Live("RwLockReadGuard") = 0
    /\ inner.permits
         + Live("MutexGuard") + Live("RwLockReadGuard")
         + MAX_READS * Live("RwLockWriteGuard") + Collected
       = TotalPermits(kind)
    /\ TimedOut =>
          /\ pc[result.task] \in {"idle", "panicked"}
          /\ inner.need[result.task] = 0
          /\ \A i \in 1..Len(inner.queue) : inner.queue[i] # result.task

\* A write call timed out while two tasks hold read guards.
C4_Witness ==
    /\ kind = "RwLock"
    /\ TimedOut
    /\ result.op \in {"write", "write_err"}
    /\ Live("RwLockReadGuard") = 2
    /\ \A t \in Tasks : held[t]["RwLockReadGuard"] = 1

\* C5: no premature timeout.  No timer has fired and no timeout has been
\* reported before the whole timeout of the wrapper has passed since the call
\* started: 30 seconds for new, the given duration for new_with_timeout.
C5_NoPrematureTimeout ==
    /\ \A t \in Waiting : Fired(t) => elapsed[t] >= timeout
    /\ TimedOut => result.at >= timeout
    /\ (TimedOut /\ ctor = "new") => result.at >= from_secs(DEFAULT_TIMEOUT_SECS)

\* The custom timeout of the tests: a read() on a 60 second RwLock timed out
\* at 60 seconds.
C5_Witness ==
    /\ kind = "RwLock"
    /\ ctor = "new_with_timeout"
    /\ timeout = from_secs(CUSTOM_TIMEOUT_SECS)
    /\ result.kind = "panic"
    /\ result.op = "read"
    /\ result.at = from_secs(CUSTOM_TIMEOUT_SECS)

\* The error-path twin of each abort-path method.
TwinVariant(o) ==
    CASE o = "lock" -> "LockTimeout"
      [] o = "read" -> "ReadLockTimeout"
      [] o = "write" -> "WriteLockTimeout"

\* C6: the abort message.  The panic message of lock(), read() and write()
\* is the Display text of the error their error-path twin returns, with the
\* whole seconds of the timeout.
C6_AbortMessage ==
    result.kind = "panic" =>
        /\ result.text = Display(TwinVariant(result.op))
        /\ result.secs * TicksPerSec <= timeout
        /\ timeout < (result.secs + 1) * TicksPerSec

\* C7: independent timers.  The timer of every pending call stands at the
\* wrapper's timeout less the time since that call started, whatever other
\* calls are pending, have timed out or have succeeded; so every timeout is
\* reported exactly the timeout after its own call started.
C7_IndependentTimers ==
    /\ \A t \in Waiting : timer[t] + elapsed[t] = timeout
    /\ TimedOut => result.at = timeout

\* The call that started first timed out; the one that started later is still
\* pending, short of its own deadline.
C7_Witness ==
    /\ TimedOut
    /\ result.at = timeout
    /\ \E u \in Waiting :
          /\ u # result.task
          /\ 0 < elapsed[u]
          /\ elapsed[u] < timeout
          /\ ~Granted(u)

\* A live guard that conflicts with the method o.
ConflictLive(o) ==
    CASE o \in MutexOps \cup {"try_lock", "inner_lock"} -> Live("MutexGuard") > 0
      [] o \in {"read", "read_err", "try_read", "inner_read"} ->
           Live("RwLockWriteGuard") > 0
      [] o \in {"write", "write_err", "try_write", "inner_write"} ->
           Live("RwLockReadGuard") + Live("RwLockWriteGuard") > 0

Before(u, t) ==
    \E i, j \in 1..Len(inner.queue) :
        i < j /\ inner.queue[i] = u /\ inner.queue[j] = t

GrantedAhead(t) == \E u \in Tasks \ {t} : Granted(u) \/ Unblocked(u)

QueuedAhead(t) == \E u \in Tasks \ {t} : Before(u, t)

\* C8 as stated: a pending call of a wrapper with a positive timeout that has
\* no conflicting guard live and no other waiter granted ahead of it completes
\* with a guard, never with a timeout.  (Time passes only in steps that leave
\* the lock as it is, so a call that completes in such a state was pending in
\* it before its deadline too.)
C8_Original ==
    [][\A t \in Tasks :
          ( /\ timeout > 0
            /\ t \in Waiting
            /\ ~ConflictLive(op[t])
            /\ ~GrantedAhead(t)
            /\ pc'[t] # "waiting" )
          => result'.kind = "guard"]_vars

\* C8 amended: guard release.  A pending call with no conflicting guard live
\* and no other waiter queued or granted ahead of it has been granted the
\* lock: its next poll returns the guard and cannot report a timeout; a call
\* that has yielded finds, in the same situation, the permits it asks for in
\* the counter.  With no guard live and no acquisition in flight every
\* permit is back in the counter.
C8_GuardRelease ==
    /\ \A t \in Waiting :
          (~ConflictLive(op[t]) /\ ~GrantedAhead(t) /\ ~QueuedAhead(t))
              => Granted(t)
    /\ \A t \in Waiting :
          Granted(t) => ENABLED AcquireWins(t) /\ ~ENABLED TimerWins(t)
    /\ \A t \in Yielded :
          (~ConflictLive(op[t]) /\ ~GrantedAhead(t) /\ inner.queue = <<>>)
              => CanAcquire(inner, NumPermits(op[t]))
    /\ (Pending = {} /\ ~SomeoneHolds) => inner.permits = TotalPermits(kind)

\* The write guard was dropped while a call waited short of its deadline, and
\* the call has been granted the lock.
C8_Witness ==
    \E t \in Waiting :
        /\ Granted(t)
        /\ 0 < elapsed[t]
        /\ elapsed[t] < timeout
        /\ ~SomeoneHolds
        /\ op[t] \in {"write", "write_err", "lock"}

AllOps == MutexOps \cup RwLockOps

\* C9 as stated: success path.  A call made while no conflicting guard is
\* live and no acquisition is in flight returns its guard in the step of the
\* call: the caller is not suspended, holds one more guard of the method's
\* kind, and no panic or error is reported.
C9_Original ==
    [][Pending = {} =>
          \A t \in Tasks, o \in AllOps :
              (Call(t, o) /\ ~ConflictLive(o))
              => /\ result' = OnGuard(t, o, 0)
                 /\ pc'[t] = "idle"
                 /\ held'[t] = [held[t] EXCEPT ![GuardOf(o)] = @ + 1]
                 /\ timer'[t] = NoTimer]_vars

\* The poll that polls the call of o by t through: the first poll of the
\* call, or the poll after the call yielded.
PolledThrough(t, o) ==
    \/ Call(t, o) /\ pc'[t] # "yielded"
    \/ Resume(t) /\ op[t] = o

\* C9 amended: success path.  A call that is polled through while no
\* conflicting guard is live and no acquisition is in flight returns its
\* guard in that poll, with no time waited: the caller is not suspended,
\* holds one more guard of the method's kind, and no panic or error is
\* reported.  Read guards do not conflict with a read.
C9_SuccessPath ==
    [][Pending = {} =>
          \A t \in Tasks, o \in AllOps :
              (PolledThrough(t, o) /\ ~ConflictLive(o))
              => /\ result' = OnGuard(t, o, 0)
                 /\ pc'[t] = "idle"
                 /\ held'[t] = [held[t] EXCEPT ![GuardOf(o)] = @ + 1]
                 /\ timer'[t] = NoTimer]_vars

\* Two tasks hold read guards at once, the second read having just returned.
C9_Witness ==
    /\ result.kind = "guard"
    /\ result.op \in {"read", "read_err"}
    /\ result.at = 0
    /\ Pending = {}
    /\ \A t \in Tasks : held[t]["RwLockReadGuard"] >= 1
    /\ timeout = 0

\* A step completes the call of t to one of the six timed methods.
Completes(t) ==
    \/ t \in Waiting /\ pc'[t] # "waiting"
    \/ t \in Yielded /\ op[t] \in AllOps /\ pc'[t] \notin {"yielded", "waiting"}
    \/ pc[t] = "idle" /\ result'.task = t /\ result'.op \in AllOps

MethodOf(t) == IF t \in Waiting \cup Yielded THEN op[t] ELSE result'.op

EndsWithGuard(t) ==
    /\ result'.kind = "guard"
    /\ pc'[t] = "idle"
    /\ held'[t] = [held[t] EXCEPT ![GuardOf(MethodOf(t))] = @ + 1]

EndsWithPanic(t) ==
    /\ result'.kind = "panic"
    /\ pc'[t] = "panicked"
    /\ held'[t] = NoGuards

EndsWithError(t) ==
    /\ result'.kind = "err"
    /\ pc'[t] = "idle"
    /\ held'[t] = held[t]

\* C10: exactly one outcome per call, fixed by the method.  Every step that
\* completes a call reports it as that task's outcome and ends it in exactly
\* one of: guard returned, caller panicked, error returned; an abort-path
\* method never ends with an error, an error-path method never with a panic.
C10_OneOutcome ==
    [][\A t \in Tasks :
          Completes(t)
          => /\ result'.task = t
             /\ result'.op = MethodOf(t)
             /\ EndsWithGuard(t) \/ EndsWithPanic(t) \/ EndsWithError(t)
             /\ ~(EndsWithGuard(t) /\ EndsWithPanic(t))
             /\ ~(EndsWithGuard(t) /\ EndsWithError(t))
             /\ ~(EndsWithPanic(t) /\ EndsWithError(t))
             /\ MethodOf(t) \in AbortOps => ~EndsWithError(t)
             /\ MethodOf(t) \in ErrorOps => ~EndsWithPanic(t)]_vars

\* An error-path call returned its error on a wrapper on which an abort-path
\* call has panicked another task.
C10_Witness ==
    /\ result.kind = "err"
    /\ pc[result.task] = "idle"
    /\ \E u \in Tasks : pc[u] = "panicked"

\* C11: construction rejects a zero timeout.  Every wrapper that exists has a
\* positive timeout, and no acquisition call reports a timeout at the very
\* instant it was made.
C11_ConstructionRejectsZero ==
    /\ timeout > 0
    /\ TimedOut => result.at > 0

\* C13: the timeout is fixed at construction.  No step (a call, a timeout, an
\* abort, a guard release, the passing of time) changes the wrapper's timeout
\* or the record of how it was built; a wrapper built by new, Default or From
\* has the 30 seconds, one built by new_with_timeout one of the durations
\* given; and every pending call runs on that same timeout.
C13_TimeoutFixed ==
    [][/\ timeout' = timeout
       /\ ctor' = ctor
       /\ kind' = kind
       /\ ctor = "new" => timeout = from_secs(DEFAULT_TIMEOUT_SECS)
       /\ ctor = "new_with_timeout" => timeout \in TimeoutChoices
       /\ \A t \in Tasks :
             pc'[t] = "waiting" => timer'[t] + elapsed'[t] = timeout]_vars

\* A wrapper built with 60 seconds on which one task has been panicked and an
\* error-path call has just timed out, still after 60 seconds.
C13_Witness ==
    /\ ctor = "new_with_timeout"
    /\ timeout = from_secs(CUSTOM_TIMEOUT_SECS)
    /\ result.kind = "err"
    /\ result.secs = CUSTOM_TIMEOUT_SECS
    /\ result.at = from_secs(CUSTOM_TIMEOUT_SECS)
    /\ \E u \in Tasks : pc[u] = "panicked"

InQueue(t) == \E i \in 1..Len(inner.queue) : inner.queue[i] = t

\* The permits behind all live guards.
LivePermits ==
    Live("MutexGuard") + Live("RwLockReadGuard") + MAX_READS * Live("RwLockWriteGuard")

\* C14: a timed-out acquisition is abandoned cleanly.  The wait queue holds
\* exactly the pending calls that still lack permits, so a call that has
\* reported a timeout has no place in it and no permits of its own; with no
\* call pending the lock is as its live guards alone make it: every other
\* permit is in the counter, so after a write attempt timed out under read
\* guards a read call gets its guard at once, and with no guard live every
\* acquisition does.
C14_AbandonedCleanly ==
    /\ \A t \in Tasks : InQueue(t) <=> (t \in Pending /\ inner.need[t] > 0)
    /\ \A t \in Tasks : t \notin Pending => inner.need[t] = 0
    /\ TimedOut => ~InQueue(result.task) /\ result.task \notin Pending
    /\ Pending = {} =>
          /\ inner.queue = <<>>
          /\ inner.permits = TotalPermits(kind) - LivePermits
          /\ (kind = "RwLock" /\ Live("RwLockWriteGuard") = 0)
                => CanAcquire(inner, NumPermits("read"))
          /\ ~SomeoneHolds => \A o \in OpsOf(kind) : CanAcquire(inner, NumPermits(o))

\* A write_err timed out while a read guard was held; no call is pending and
\* a read would get its guard at once.
C14_Witness ==
    /\ kind = "RwLock"
    /\ result.kind = "err"
    /\ result.op = "write_err"
    /\ timeout > 0
    /\ Live("RwLockReadGuard") = 1
    /\ Pending = {}
    /\ CanAcquire(inner, NumPermits("read"))

Dead == {t \in Tasks : pc[t] = "panicked"}

\* C15: an abort releases what the aborting task held.  A panicked task owns
\* no guard and no permit of the lock stays with it: right after an abort a
\* waiter that no live guard conflicts with and that has no waiter ahead of it
\* has been granted the lock, with no call pending every permit not behind a
\* guard of a running task is in the counter, and once every task has
\* panicked the lock is entirely free.
C15_AbortReleases ==
    /\ \A t \in Dead : held[t] = NoGuards /\ inner.need[t] = 0 /\ ~InQueue(t)
    /\ result.kind = "panic" =>
          /\ result.task \in Dead
          /\ \A u \in Pending :
                (~ConflictLive(op[u]) /\ ~QueuedAhead(u) /\ ~GrantedAhead(u))
                    => inner.need[u] = 0
    /\ (Dead # {} /\ Pending = {}) =>
          inner.permits
            = TotalPermits(kind)
                - SumOver([t \in Tasks |-> HeldPermits(held[t])], Tasks \ Dead)
    /\ Dead = Tasks => inner.permits = TotalPermits(kind)

\* The deadlock of the tests with a second task waiting: the task holding the
\* guard panicked on its own timed-out call, and the other task's pending
\* call, short of its deadline, has been granted the lock.
C15_Witness ==
    /\ result.kind = "panic"
    /\ timeout > 0
    /\ ~SomeoneHolds
    /\ \E u \in Waiting :
          /\ u # result.task
          /\ Granted(u)
          /\ 0 < elapsed[u]
          /\ elapsed[u] < timeout

\* C17: the seconds reported on a timeout are the whole seconds of the
\* configured timeout: the largest N with N seconds <= timeout, whatever the
\* time the call is reported at, which is the full timeout; 0 for a timeout
\* below one second, 1 for one of 1.5 seconds, 30 and 60 for the timeouts of
\* the tests.
C17_WholeSeconds ==
    TimedOut =>
        /\ result.secs \in Nat
        /\ from_secs(result.secs) <= timeout
        /\ timeout < from_secs(result.secs + 1)
        /\ result.at = timeout
        /\ timeout < from_secs(1) => result.secs = 0
        /\ (from_secs(1) <= timeout /\ timeout < from_secs(2)) => result.secs = 1
        /\ timeout = from_secs(DEFAULT_TIMEOUT_SECS) => result.secs = DEFAULT_TIMEOUT_SECS
        /\ timeout = from_secs(CUSTOM_TIMEOUT_SECS) => result.secs = CUSTOM_TIMEOUT_SECS

\* A call on a wrapper of 1.5 seconds timed out after the 1.5 seconds and
\* reported 1 second.
C17_Witness ==
    /\ TimedOut
    /\ timeout = TicksPerSec + (TicksPerSec \div 2)
    /\ timeout > from_secs(1)
    /\ result.at = timeout
    /\ result.secs = 1

TimeoutVariants == {"LockTimeout", "ReadLockTimeout", "WriteLockTimeout"}

\* C16: the delegated try operations.  try_lock, try_read and try_write
\* return in the step of the call, with a guard or with the try-lock error:
\* the caller is not suspended, no timer is armed and no pending call is
\* touched; with a conflicting guard live they fail, the failure is
\* TokioSyncTryLock and none of the timeout variants, and it leaves the
\* lock, its holders and its waiters as they were.
C16_TryDelegated ==
    [][\A t \in Tasks, o \in TryOps :
          Try(t, o)
          => /\ result'.task = t
             /\ result'.op = o
             /\ result'.at = 0
             /\ result'.kind \in {"guard", "try_err"}
             /\ pc' = pc
             /\ op' = op
             /\ timer' = timer
             /\ elapsed' = elapsed
             /\ inner'.queue = inner.queue
             /\ inner'.need = inner.need
             /\ \A u \in Tasks \ {t} : held'[u] = held[u]
             /\ ConflictLive(o) => result'.kind = "try_err"
             /\ result'.kind = "try_err"
                   => /\ result'.text = "TokioSyncTryLock"
                      /\ result'.text \notin TimeoutVariants
                      /\ inner' = inner
                      /\ held' = held
             /\ result'.kind = "guard"
                   => /\ ~ConflictLive(o)
                      /\ held'[t] = [held[t] EXCEPT ![GuardOf(o)] = @ + 1]]_vars

\* try_write failed on a read guard while another task's write call is
\* pending: the caller runs on, no timer is armed for it and the pending call
\* is still queued.
C16_Witness ==
    /\ result.kind = "try_err"
    /\ result.op = "try_write"
    /\ result.text = "TokioSyncTryLock"
    /\ pc[result.task] = "idle"
    /\ timer[result.task] = NoTimer
    /\ Live("RwLockReadGuard") >= 1
    /\ \E u \in Waiting : InQueue(u) /\ 0 < elapsed[u]

====
